---- MODULE Spec2Model ----
(***************************************************************************)
(* Folder connector (backend/onyx/connectors/folder/connector.py):         *)
(* recursive scan of a directory tree, upload of every eligible file to    *)
(* the file store, then per-file read + extraction with batch emission.    *)
(*                                                                         *)
(* Strings are sequences of one-character strings, so that startswith,     *)
(* split, basename, relpath and the extension lookup are computed the way  *)
(* the code computes them.                                                 *)
(***************************************************************************)
EXTENDS Integers, Sequences, FiniteSets, TLC

(***************************************************************************)
(* Bounds of the model.                                                    *)
(***************************************************************************)
\* most nodes (files and directories) of a tree scanned on its own
MaxNodes == 7
\* most nodes of a tree taken through a whole run
MaxRunNodes == 4
\* most documents one extraction returns
MaxDocs == 2
\* largest batch_size a connector is constructed with
MaxBatchSize == 3
\* most segments of a path handed to the path filter on its own
MaxSegments == 3

(***************************************************************************)
(* String helpers (Python str / os.path).                                  *)
(***************************************************************************)
SEP == "/"

\* str.startswith(".")
StartsWithDot(s) == Len(s) > 0 /\ s[1] = "."

\* str.rfind(c): the last position of c in s, 0 when there is none
RECURSIVE RFind(_, _)
RFind(s, c) ==
    IF Len(s) = 0 THEN 0
    ELSE IF s[Len(s)] = c THEN Len(s)
    ELSE RFind(SubSeq(s, 1, Len(s) - 1), c)

\* str.split(os.sep): the segments between separators, empty ones included
RECURSIVE SplitFrom(_, _, _)
SplitFrom(s, k, cur) ==
    IF k > Len(s) THEN <<cur>>
    ELSE IF s[k] = SEP THEN <<cur>> \o SplitFrom(s, k + 1, <<>>)
    ELSE SplitFrom(s, k + 1, Append(cur, s[k]))

Split(s) == SplitFrom(s, 1, <<>>)

\* os.sep.join(parts)
RECURSIVE JoinParts(_)
JoinParts(parts) ==
    IF Len(parts) = 0 THEN <<>>
    ELSE IF Len(parts) = 1 THEN parts[1]
    ELSE parts[1] \o <<SEP>> \o JoinParts(Tail(parts))

\* os.path.join(a, b) for a relative b
PathJoin(a, b) ==
    IF Len(a) = 0 \/ a[Len(a)] = SEP THEN a \o b ELSE a \o <<SEP>> \o b

\* os.path.basename(p): what follows the last separator
Basename(p) == SubSeq(p, RFind(p, SEP) + 1, Len(p))

DOT == <<".">>
DOTDOT == <<".", ".">>

\* the segments of a path that os.path.normpath keeps: empty and "." segments
\* are dropped, ".." removes the segment before it (kept when there is none
\* in a relative path)
RECURSIVE NormParts(_, _)
NormParts(parts, acc) ==
    IF Len(parts) = 0 THEN acc
    ELSE LET p == Head(parts) IN
         IF p = <<>> \/ p = DOT THEN NormParts(Tail(parts), acc)
         ELSE IF p = DOTDOT /\ Len(acc) > 0 /\ acc[Len(acc)] # DOTDOT
              THEN NormParts(Tail(parts), SubSeq(acc, 1, Len(acc) - 1))
         ELSE NormParts(Tail(parts), Append(acc, p))

IsAbs(p) == Len(p) > 0 /\ p[1] = SEP

\* os.path.normpath(p)
Normpath(p) ==
    LET parts == NormParts(Split(p), <<>>)
        kept  == IF IsAbs(p)
                 THEN SelectSeq(parts, LAMBDA x : x # DOTDOT)
                 ELSE parts
        body  == JoinParts(kept)
    IN  IF IsAbs(p) THEN <<SEP>> \o body
        ELSE IF Len(body) = 0 THEN DOT
        ELSE body

\* length of the common prefix of two segment lists
RECURSIVE CommonLen(_, _)
CommonLen(a, b) ==
    IF Len(a) = 0 \/ Len(b) = 0 \/ Head(a) # Head(b) THEN 0
    ELSE 1 + CommonLen(Tail(a), Tail(b))

\* os.path.relpath(path, start) for two absolute paths
Relpath(path, start) ==
    LET sl  == SelectSeq(Split(Normpath(start)), LAMBDA x : x # <<>>)
        pl  == SelectSeq(Split(Normpath(path)), LAMBDA x : x # <<>>)
        c   == CommonLen(sl, pl)
        ups == [k \in 1..(Len(sl) - c) |-> DOTDOT]
        rel == ups \o SubSeq(pl, c + 1, Len(pl))
    IN  IF Len(rel) = 0 THEN DOT ELSE JoinParts(rel)

(***************************************************************************)
(* Path filter and extension registry.                                     *)
(***************************************************************************)
\* line 25 left out and only the file name looked at
ShouldProcessFile_BasenameOnly(file_path) ==
    ~ StartsWithDot(Basename(file_path))

\* _should_process_file: no segment of the normalised path starts with "."
ShouldProcessFile(file_path) ==
    LET parts == Split(Normpath(file_path))
    IN  ~ \E k \in 1..Len(parts) : StartsWithDot(parts[k])

\* str.lower() over the letters the model's names use
LowerChar(c) ==
    CASE c = "P" -> "p"
      [] c = "N" -> "n"
      [] c = "G" -> "g"
      [] c = "D" -> "d"
      [] c = "F" -> "f"
      [] c = "M" -> "m"
      [] OTHER -> c

Lower(s) == [k \in 1..Len(s) |-> LowerChar(s[k])]

\* os.path.splitext(name)[1]: from the last dot on, unless only dots precede it
SplitExt(name) ==
    LET dot == RFind(name, ".")
    IN  IF dot > RFind(name, SEP)
           /\ \E k \in (RFind(name, SEP) + 1)..(dot - 1) : name[k] # "."
        THEN SubSeq(name, dot, Len(name))
        ELSE <<>>

\* get_file_ext: the extension, dot included, lower-cased
GetFileExt(name) == Lower(SplitExt(name))

\* the extensions the registry accepts (OnyxExtensionType.All)
AcceptedExts ==
    { <<".", "p", "d", "f">>, <<".", "p", "n", "g">>, <<".", "m", "d">> }

\* is_accepted_file_ext(ext, OnyxExtensionType.All)
IsAcceptedFileExt(ext) == ext \in AcceptedExts

(***************************************************************************)
(* The filesystem: a tree is a set of indices into Candidates, closed      *)
(* under parent.  parent 0 is the scanned folder itself.  A directory of   *)
(* kind "denied" fails to list with an OSError; one of kind "faulty" makes *)
(* the walk raise an unexpected error when it is listed.  A directory      *)
(* lists its entries in index order.                                       *)
(***************************************************************************)
Candidates == <<
    [parent |-> 0, name |-> <<"r", ".", "p", "d", "f">>, kind |-> "file"],
    [parent |-> 0, name |-> <<"i", ".", "P", "N", "G">>, kind |-> "file"],
    [parent |-> 0, name |-> <<".", "s">>,                kind |-> "dir"],
    [parent |-> 3, name |-> <<"n", ".", "t", "x", "t">>, kind |-> "file"],
    [parent |-> 3, name |-> <<"r", ".", "p", "d", "f">>, kind |-> "file"],
    [parent |-> 0, name |-> <<"a">>,                     kind |-> "dir"],
    [parent |-> 6, name |-> <<"d">>,                     kind |-> "dir"],
    [parent |-> 7, name |-> <<"m", ".", "m", "d">>,      kind |-> "file"],
    [parent |-> 6, name |-> <<"r", ".", "p", "d", "f">>, kind |-> "file"],
    [parent |-> 0, name |-> <<".", "e", ".", "m", "d">>, kind |-> "file"],
    [parent |-> 0, name |-> <<"x", ".", "x", "y", "z">>, kind |-> "file"],
    [parent |-> 6, name |-> <<".", "g">>,                kind |-> "faulty"],
    [parent |-> 0, name |-> <<"b">>,                     kind |-> "faulty"],
    [parent |-> 0, name |-> <<"l">>,                     kind |-> "denied"] >>

NodeIds == 1..Len(Candidates)

IsDirNode(n) == Candidates[n].kind # "file"

ParentClosed(t) == \A n \in t : Candidates[n].parent = 0 \/ Candidates[n].parent \in t

Trees(maxNodes) ==
    { t \in SUBSET NodeIds : Cardinality(t) <= maxNodes /\ ParentClosed(t) }

\* the folder paths a connector is constructed with
FolderPaths == { <<"/", "d">>, <<"/", ".", "r">> }

VARIABLES
    folder_path,   \* FolderConnector.folder_path
    batch_size,    \* FolderConnector.batch_size
    rootKind,      \* what folder_path is on disk: "missing", "file" or "dir"
    tree,          \* the nodes under folder_path
    pc,            \* where the run is
    walkStack,     \* os.walk: directories still to list, next one first
    visited,       \* directories os.walk has listed (or tried to list)
    files,         \* _scan_folder_recursively: files
    i,             \* _upload_files_from_folder: position in files_to_upload
    file_ids,      \* _upload_files_from_folder: file_ids
    file_names,    \* _upload_files_from_folder: file_names
    metadata,      \* _upload_files_from_folder: metadata (display name -> dict)
    store,         \* the file store: file id -> the record and bytes saved
    n_saves,       \* save_file calls the store has received
    j,             \* load_from_state: position in zip(file_locations, file_names)
    documents,     \* load_from_state: documents
    batches,       \* the batches the consumer has received, in order
    calls,         \* every call to the filesystem, the store and the extractor
    open_handles,  \* file handles and byte streams opened and not yet closed
    filter_path,   \* _should_process_file on its own: file_path
    filter_result  \* _should_process_file on its own: the value returned

envVars == <<folder_path, batch_size, rootKind, tree, filter_path, filter_result>>

scanVars == <<walkStack, visited, files>>

\* the path os.walk reports for a directory: folder_path for the top,
\* os.path.join(parent path, name) below it
RECURSIVE DirPath(_, _)
DirPath(fp, n) ==
    IF n = 0 THEN fp
    ELSE PathJoin(DirPath(fp, Candidates[n].parent), Candidates[n].name)

\* os.scandir: the entries of directory d, in listing order
Children(t, d) ==
    SelectSeq([k \in NodeIds |-> k],
              LAMBDA k : k \in t /\ Candidates[k].parent = d)

\* line 54 left out: every directory is walked
PruneDirs_None(dirs) == dirs

\* line 54: dirs[:] = [d for d in dirs if not d.startswith(".")]
PruneDirs(dirs) ==
    SelectSeq(dirs, LAMBDA k : ~ StartsWithDot(Candidates[k].name))

\* lines 68-74 left out: the extension is never looked at
ScanEntry_NoExtensionCheck(fp, root, filename) ==
    LET full_path     == PathJoin(root, filename)
        relative_path == Relpath(full_path, fp)
    IN  IF StartsWithDot(filename) THEN <<>>
        ELSE IF ~ ShouldProcessFile(relative_path) THEN <<>>
        ELSE << [full_path |-> full_path, relative_path |-> relative_path] >>

\* lines 56-76 for one file name: the entry appended, or none
ScanEntry(fp, root, filename) ==
    LET full_path     == PathJoin(root, filename)
        relative_path == Relpath(full_path, fp)
    IN  IF StartsWithDot(filename) THEN <<>>
        ELSE IF ~ ShouldProcessFile(relative_path) THEN <<>>
        ELSE IF ~ IsAcceptedFileExt(GetFileExt(filename)) THEN <<>>
        ELSE << [full_path |-> full_path, relative_path |-> relative_path] >>

\* lines 56-76: the entries one directory's file names add, in order
RECURSIVE ScanFilenames(_, _, _)
ScanFilenames(fp, root, names) ==
    IF Len(names) = 0 THEN <<>>
    ELSE ScanEntry(fp, root, Candidates[Head(names)].name)
         \o ScanFilenames(fp, root, Tail(names))

\* os.walk on one readable directory (lines 52-76): its entries are listed,
\* hidden directories are pruned, its eligible files are appended, and the
\* directories kept are walked next, before anything still pending
WalkListing(fp, t, d) ==
    LET entries   == Children(t, d)
        dirs      == SelectSeq(entries, IsDirNode)
        filenames == SelectSeq(entries, LAMBDA k : ~ IsDirNode(k))
    IN  [ dirs  |-> PruneDirs(dirs),
          found |-> ScanFilenames(fp, DirPath(fp, d), filenames) ]

(***************************************************************************)
(* Upload helpers.                                                         *)
(***************************************************************************)
\* mimetypes.guess_type(full_path)[0], None written as "none"
GuessType(full_path) ==
    LET ext == Lower(SplitExt(Basename(full_path)))
    IN  CASE ext = <<".", "p", "d", "f">> -> "application/pdf"
          [] ext = <<".", "p", "n", "g">> -> "image/png"
          [] ext = <<".", "m", "d">>      -> "text/markdown"
          [] OTHER -> "none"

\* lines 106-108
MimeType(full_path) ==
    IF GuessType(full_path) = "none" THEN "application/octet-stream"
    ELSE GuessType(full_path)

\* a call as the log records it: what was called, with which arguments, and
\* what came back (ok: it returned / found something; docs: the documents)
Call(op, file_id, name, path, meta, ok, docs) ==
    [ op |-> op, file_id |-> file_id, name |-> name, path |-> path,
      meta |-> meta, ok |-> ok, docs |-> docs ]

NoMeta == [none |-> TRUE]

\* DocumentSource.FOLDER.value
FOLDER == "folder"

\* the id the store gives the k-th save it receives
StoreId(k) == 100 + k

vars == <<folder_path, batch_size, rootKind, tree, pc, walkStack, visited, files,
          i, file_ids, file_names, metadata, store, n_saves, j, documents,
          batches, calls, open_handles, filter_path, filter_result>>

uploadVars == <<i, file_ids, file_names, metadata, store, n_saves>>

emitVars == <<j, documents, batches>>

(***************************************************************************)
(* The state after FolderConnector.__init__, before load_from_state runs.  *)
(***************************************************************************)
Idle ==
    /\ pc = "start"
    /\ walkStack = <<>>
    /\ visited = {}
    /\ files = <<>>
    /\ i = 1
    /\ file_ids = <<>>
    /\ file_names = <<>>
    /\ metadata = <<>>
    /\ store = <<>>
    /\ n_saves = 0
    /\ j = 1
    /\ documents = <<>>
    /\ batches = <<>>
    /\ calls = <<>>
    /\ open_handles = {}

InitWith(maxNodes, batchSizes) ==
    /\ folder_path \in FolderPaths
    /\ batch_size \in batchSizes
    /\ rootKind \in {"missing", "file", "dir"}
    /\ tree \in IF rootKind = "dir" THEN Trees(maxNodes) ELSE {{}}
    /\ filter_path = <<>>
    /\ filter_result = FALSE
    /\ Idle

Init == InitWith(MaxRunNodes, 0..MaxBatchSize)

(***************************************************************************)
(* _scan_folder_recursively                                                *)
(***************************************************************************)
\* lines 42-48 with the checks raising instead of returning
ScanRootRejected_Raises ==
    /\ pc = "start"
    /\ rootKind # "dir"
    /\ pc' = "scan_raised"
    /\ UNCHANGED <<envVars, scanVars, uploadVars, emitVars, calls, open_handles>>

\* lines 42-48: the path is missing or is no directory: return the empty list
ScanRootRejected ==
    /\ pc = "start"
    /\ rootKind # "dir"
    /\ pc' = "upload"
    /\ UNCHANGED <<envVars, scanVars, uploadVars, emitVars, calls, open_handles>>

\* lines 42-52: the path is a directory: os.walk starts at it
ScanRootAccepted ==
    /\ pc = "start"
    /\ rootKind = "dir"
    /\ walkStack' = <<0>>
    /\ pc' = "walk"
    /\ UNCHANGED <<envVars, visited, files, uploadVars, emitVars, calls, open_handles>>

DirKind(d) == IF d = 0 THEN "dir" ELSE Candidates[d].kind

\* lines 52-76: one iteration of the os.walk loop
WalkDir ==
    /\ pc = "walk"
    /\ walkStack # <<>>
    /\ DirKind(Head(walkStack)) = "dir"
    /\ LET d == Head(walkStack)
           w == WalkListing(folder_path, tree, d)
       IN  /\ walkStack' = w.dirs \o Tail(walkStack)
           /\ files' = files \o w.found
           /\ visited' = visited \cup {d}
    /\ UNCHANGED <<envVars, pc, uploadVars, emitVars, calls, open_handles>>

\* line 52: os.walk (onerror=None) drops a directory whose listing fails
\* with an OSError and goes on
WalkDenied ==
    /\ pc = "walk"
    /\ walkStack # <<>>
    /\ DirKind(Head(walkStack)) = "denied"
    /\ walkStack' = Tail(walkStack)
    /\ visited' = visited \cup {Head(walkStack)}
    /\ UNCHANGED <<envVars, pc, files, uploadVars, emitVars, calls, open_handles>>

\* lines 81-83: an unexpected error in the walk is logged and raised again;
\* nothing catches it in _upload_files_from_folder or load_from_state
WalkFaulty ==
    /\ pc = "walk"
    /\ walkStack # <<>>
    /\ DirKind(Head(walkStack)) = "faulty"
    /\ visited' = visited \cup {Head(walkStack)}
    /\ pc' = "scan_raised"
    /\ UNCHANGED <<envVars, walkStack, files, uploadVars, emitVars, calls, open_handles>>

\* lines 78-79: the walk is over, files is returned
ScanReturn ==
    /\ pc = "walk"
    /\ walkStack = <<>>
    /\ pc' = "upload"
    /\ UNCHANGED <<envVars, scanVars, uploadVars, emitVars, calls, open_handles>>

NextScan ==
    \/ ScanRootRejected
    \/ ScanRootAccepted
    \/ WalkDir
    \/ WalkDenied
    \/ WalkFaulty
    \/ ScanReturn

\* the scanner on its own, over every tree of at most MaxNodes nodes
SpecScan == InitWith(MaxNodes, {MaxBatchSize}) /\ [][NextScan]_vars

(***************************************************************************)
(* _upload_files_from_folder                                               *)
(***************************************************************************)
\* what the filesystem and the store do with one upload
UploadOutcomes == {"ok", "open_fails", "save_fails"}

\* lines 117-118 moved before the save: the name is recorded although the
\* save raised
UploadEntry_NameBeforeSave(entry, outcome, ids, names, meta, st, ns) ==
    LET display_name == Basename(entry.relative_path)
        file_id      == StoreId(ns + 1)
        opened(ok)   == Call("open", 0, <<>>, entry.full_path, NoMeta, ok, <<>>)
        saved(ok)    == Call("save", IF ok THEN file_id ELSE 0, display_name,
                             entry.full_path, NoMeta, ok, <<>>)
        closed       == Call("close", 0, <<>>, entry.full_path, NoMeta, TRUE, <<>>)
    IN  CASE outcome = "open_fails" ->
               [ file_ids |-> ids, file_names |-> names, metadata |-> meta,
                 store |-> st, n_saves |-> ns, calls |-> <<opened(FALSE)>> ]
          [] outcome = "save_fails" ->
               [ file_ids |-> ids, file_names |-> Append(names, display_name),
                 metadata |-> meta, store |-> st, n_saves |-> ns + 1,
                 calls |-> <<opened(TRUE), saved(FALSE), closed>> ]
          [] outcome = "ok" ->
               [ file_ids   |-> Append(ids, file_id),
                 file_names |-> Append(names, display_name),
                 metadata   |-> (display_name :>
                                   [ relative_path |-> entry.relative_path,
                                     full_path     |-> entry.full_path ]) @@ meta,
                 store      |-> (file_id :>
                                   [ display_name |-> display_name,
                                     file_type    |-> MimeType(entry.full_path),
                                     content      |-> entry.full_path ]) @@ st,
                 n_saves    |-> ns + 1,
                 calls      |-> <<opened(TRUE), saved(TRUE), closed>> ]

\* lines 120-123 as setdefault: the first file of a basename keeps the entry
UploadEntry_FirstWriteWins(entry, outcome, ids, names, meta, st, ns) ==
    LET display_name == Basename(entry.relative_path)
        file_id      == StoreId(ns + 1)
        opened(ok)   == Call("open", 0, <<>>, entry.full_path, NoMeta, ok, <<>>)
        saved(ok)    == Call("save", IF ok THEN file_id ELSE 0, display_name,
                             entry.full_path, NoMeta, ok, <<>>)
        closed       == Call("close", 0, <<>>, entry.full_path, NoMeta, TRUE, <<>>)
    IN  CASE outcome = "open_fails" ->
               [ file_ids |-> ids, file_names |-> names, metadata |-> meta,
                 store |-> st, n_saves |-> ns, calls |-> <<opened(FALSE)>> ]
          [] outcome = "save_fails" ->
               [ file_ids |-> ids, file_names |-> names, metadata |-> meta,
                 store |-> st, n_saves |-> ns + 1,
                 calls |-> <<opened(TRUE), saved(FALSE), closed>> ]
          [] outcome = "ok" ->
               [ file_ids   |-> Append(ids, file_id),
                 file_names |-> Append(names, display_name),
                 metadata   |-> meta @@ (display_name :>
                                   [ relative_path |-> entry.relative_path,
                                     full_path     |-> entry.full_path ]),
                 store      |-> (file_id :>
                                   [ display_name |-> display_name,
                                     file_type    |-> MimeType(entry.full_path),
                                     content      |-> entry.full_path ]) @@ st,
                 n_saves    |-> ns + 1,
                 calls      |-> <<opened(TRUE), saved(TRUE), closed>> ]

\* lines 101-129 for one entry: the with-block opens the file, save_file is
\* called with the basename as display name, and only after it returned are
\* the id, the name and the metadata recorded; the handle is closed when the
\* block is left, also by an exception; any exception skips the entry
UploadEntry(entry, outcome, ids, names, meta, st, ns) ==
    LET display_name == Basename(entry.relative_path)
        file_id      == StoreId(ns + 1)
        opened(ok)   == Call("open", 0, <<>>, entry.full_path, NoMeta, ok, <<>>)
        saved(ok)    == Call("save", IF ok THEN file_id ELSE 0, display_name,
                             entry.full_path, NoMeta, ok, <<>>)
        closed       == Call("close", 0, <<>>, entry.full_path, NoMeta, TRUE, <<>>)
    IN  CASE outcome = "open_fails" ->
               [ file_ids |-> ids, file_names |-> names, metadata |-> meta,
                 store |-> st, n_saves |-> ns, calls |-> <<opened(FALSE)>> ]
          [] outcome = "save_fails" ->
               [ file_ids |-> ids, file_names |-> names, metadata |-> meta,
                 store |-> st, n_saves |-> ns + 1,
                 calls |-> <<opened(TRUE), saved(FALSE), closed>> ]
          [] outcome = "ok" ->
               [ file_ids   |-> Append(ids, file_id),
                 file_names |-> Append(names, display_name),
                 metadata   |-> (display_name :>
                                   [ relative_path |-> entry.relative_path,
                                     full_path     |-> entry.full_path ]) @@ meta,
                 store      |-> (file_id :>
                                   [ display_name |-> display_name,
                                     file_type    |-> MimeType(entry.full_path),
                                     content      |-> entry.full_path ]) @@ st,
                 n_saves    |-> ns + 1,
                 calls      |-> <<opened(TRUE), saved(TRUE), closed>> ]

\* line 129 with break for continue: the first failure ends the loop
UploadFile_StopsAtFailure ==
    /\ pc = "upload"
    /\ i <= Len(files)
    /\ \E outcome \in UploadOutcomes :
         LET r == UploadEntry(files[i], outcome, file_ids, file_names,
                              metadata, store, n_saves)
         IN  /\ file_ids' = r.file_ids
             /\ file_names' = r.file_names
             /\ metadata' = r.metadata
             /\ store' = r.store
             /\ n_saves' = r.n_saves
             /\ calls' = calls \o r.calls
             /\ i' = IF outcome = "ok" THEN i + 1 ELSE Len(files) + 1
    /\ UNCHANGED <<envVars, pc, scanVars, emitVars, open_handles>>

\* lines 101-129: one iteration of the upload loop
UploadFile ==
    /\ pc = "upload"
    /\ i <= Len(files)
    /\ \E outcome \in UploadOutcomes :
         LET r == UploadEntry(files[i], outcome, file_ids, file_names,
                              metadata, store, n_saves)
         IN  /\ file_ids' = r.file_ids
             /\ file_names' = r.file_names
             /\ metadata' = r.metadata
             /\ store' = r.store
             /\ n_saves' = r.n_saves
             /\ calls' = calls \o r.calls
    /\ i' = i + 1
    /\ UNCHANGED <<envVars, pc, scanVars, emitVars, open_handles>>

(***************************************************************************)
(* FolderConnector.load_from_state                                         *)
(***************************************************************************)
\* lines 169-173 raising instead of returning
NoFilesReturn_Raises ==
    /\ pc = "upload"
    /\ i > Len(files)
    /\ file_ids = <<>>
    /\ pc' = "upload_raised"
    /\ UNCHANGED <<envVars, scanVars, uploadVars, emitVars, calls, open_handles>>

\* lines 169-173: nothing was uploaded: the generator returns, no batch
NoFilesReturn ==
    /\ pc = "upload"
    /\ i > Len(files)
    /\ file_ids = <<>>
    /\ pc' = "done"
    /\ UNCHANGED <<envVars, scanVars, uploadVars, emitVars, calls, open_handles>>

\* the pairs are processed as soon as one id exists, the upload loop not
\* yet over
BeginPhase2_Early ==
    /\ pc = "upload"
    /\ file_ids # <<>>
    /\ pc' = "phase2"
    /\ j' = 1
    /\ documents' = <<>>
    /\ UNCHANGED <<envVars, scanVars, uploadVars, batches, calls, open_handles>>

\* lines 167-177: the upload returned some ids: the loop over the pairs starts
BeginPhase2 ==
    /\ pc = "upload"
    /\ i > Len(files)
    /\ file_ids # <<>>
    /\ pc' = "phase2"
    /\ j' = 1
    /\ documents' = <<>>
    /\ UNCHANGED <<envVars, scanVars, uploadVars, batches, calls, open_handles>>

\* zip(file_locations, file_names): as many pairs as the shorter list has
NumPairs == IF Len(file_ids) <= Len(file_names) THEN Len(file_ids) ELSE Len(file_names)

\* lines 185-186 left out: the dict is handed on as stored
ResolveMetadata_NeverTags(meta, display_name) ==
    [ file_metadata |-> IF display_name \in DOMAIN meta THEN meta[display_name]
                        ELSE <<>>,
      metadata      |-> meta ]

\* lines 184-186: the dict stored under the display name, or a new empty one;
\* connector_type is added to that very dict when it has none
ResolveMetadata(meta, display_name) ==
    LET base == IF display_name \in DOMAIN meta THEN meta[display_name]
                ELSE <<>>
        full == IF "connector_type" \in DOMAIN base THEN base
                ELSE ("connector_type" :> FOLDER) @@ base
    IN  [ file_metadata |-> full,
          metadata      |-> IF display_name \in DOMAIN meta
                            THEN [meta EXCEPT ![display_name] = full]
                            ELSE meta ]

\* the documents _process_file returns for a file: n of them, in order
NewDocs(file_id, n) == [k \in 1..n |-> [file_id |-> file_id, k |-> k]]

\* line 198 with > for >=
BatchIsFull_Strict(docs, size) == Len(docs) > size

\* line 198
BatchIsFull(docs, size) == Len(docs) >= size

\* the calls of lines 179-195 for a pair whose record exists: the record is
\* read, the bytes are fetched, and _process_file gets the id, the record's
\* display name, the bytes and the resolved metadata
PairCalls(file_id, meta, ok, docs) ==
    LET record == store[file_id]
    IN  << Call("readRecord", file_id, <<>>, <<>>, NoMeta, TRUE, <<>>),
           Call("readBytes", file_id, <<>>, record.content, NoMeta, TRUE, <<>>),
           Call("extract", file_id, record.display_name, record.content,
                ResolveMetadata(meta, record.display_name).file_metadata,
                ok, docs) >>

\* line 182 with break for continue: a missing record ends the loop
SkipMissingRecord_EndsLoop ==
    /\ pc = "phase2"
    /\ j <= Len(file_ids)
    /\ calls' = Append(calls, Call("readRecord", file_ids[j], <<>>, <<>>, NoMeta,
                                   FALSE, <<>>))
    /\ j' = Len(file_ids) + 1
    /\ UNCHANGED <<envVars, pc, scanVars, uploadVars, documents, batches, open_handles>>

\* lines 179-182: the store has no record for the id: the pair is skipped
SkipMissingRecord ==
    /\ pc = "phase2"
    /\ j <= NumPairs
    /\ calls' = Append(calls, Call("readRecord", file_ids[j], <<>>, <<>>, NoMeta,
                                   FALSE, <<>>))
    /\ j' = j + 1
    /\ UNCHANGED <<envVars, pc, scanVars, uploadVars, documents, batches, open_handles>>

\* lines 188-195 wrapped in try/except-continue: the failure is swallowed
ExtractRaises_Swallowed ==
    /\ pc = "phase2"
    /\ j <= Len(file_ids)
    /\ calls' = calls \o
         << Call("readRecord", file_ids[j], <<>>, <<>>, NoMeta, TRUE, <<>>),
            Call("readBytes", file_ids[j], <<>>, store[file_ids[j]].content,
                 NoMeta, TRUE, <<>>),
            Call("extract", file_ids[j], store[file_ids[j]].display_name,
                 store[file_ids[j]].content, NoMeta, FALSE, <<>>) >>
    /\ open_handles' = open_handles \cup {file_ids[j]}
    /\ j' = j + 1
    /\ UNCHANGED <<envVars, pc, scanVars, uploadVars, documents, batches>>

\* lines 179-195: _process_file raises; nothing in load_from_state catches it
ExtractRaises ==
    /\ pc = "phase2"
    /\ j <= NumPairs
    /\ calls' = calls \o PairCalls(file_ids[j], metadata, FALSE, <<>>)
    /\ metadata' = ResolveMetadata(metadata, store[file_ids[j]].display_name).metadata
    /\ open_handles' = open_handles \cup {file_ids[j]}
    /\ pc' = "extract_raised"
    /\ UNCHANGED <<envVars, scanVars, i, file_ids, file_names, store, n_saves, emitVars>>

\* lines 198-200 appending the batch to a list that is returned at the end:
\* no suspension, the loop goes straight on
ProcessFile_Eager ==
    /\ pc = "phase2"
    /\ j <= Len(file_ids)
    /\ \E n \in 0..MaxDocs :
         LET new_docs == NewDocs(file_ids[j], n)
             docs     == documents \o new_docs
         IN  /\ calls' = calls \o
                  << Call("readRecord", file_ids[j], <<>>, <<>>, NoMeta, TRUE, <<>>),
                     Call("readBytes", file_ids[j], <<>>,
                          store[file_ids[j]].content, NoMeta, TRUE, <<>>),
                     Call("extract", file_ids[j], store[file_ids[j]].display_name,
                          store[file_ids[j]].content, NoMeta, TRUE, new_docs) >>
             /\ IF Len(docs) >= batch_size
                THEN /\ batches' = Append(batches, docs)
                     /\ documents' = <<>>
                ELSE /\ batches' = batches
                     /\ documents' = docs
    /\ j' = j + 1
    /\ open_handles' = open_handles \cup {file_ids[j]}
    /\ UNCHANGED <<envVars, pc, scanVars, uploadVars>>

\* line 199 yielding documents[:batch_size]: a file's documents are cut at the
\* batch size
ProcessFile_Splits ==
    /\ pc = "phase2"
    /\ j <= NumPairs
    /\ \E n \in 0..MaxDocs :
         LET new_docs == NewDocs(file_ids[j], n)
             docs     == documents \o new_docs
         IN  /\ calls' = calls \o PairCalls(file_ids[j], metadata, TRUE, new_docs)
             /\ documents' = docs
             /\ IF BatchIsFull(docs, batch_size)
                THEN /\ batches' = Append(batches, SubSeq(docs, 1, batch_size))
                     /\ pc' = "yielded"
                     /\ j' = j
                ELSE /\ batches' = batches
                     /\ pc' = "phase2"
                     /\ j' = j + 1
    /\ metadata' = ResolveMetadata(metadata, store[file_ids[j]].display_name).metadata
    /\ open_handles' = open_handles \cup {file_ids[j]}
    /\ UNCHANGED <<envVars, scanVars, i, file_ids, file_names, store, n_saves>>

\* lines 179-200: the record is read, the bytes are fetched and extracted, the
\* documents are appended; with a full accumulator the batch is yielded and
\* the generator is suspended at line 199
ProcessFile ==
    /\ pc = "phase2"
    /\ j <= NumPairs
    /\ \E n \in 0..MaxDocs :
         LET new_docs == NewDocs(file_ids[j], n)
             docs     == documents \o new_docs
         IN  /\ calls' = calls \o PairCalls(file_ids[j], metadata, TRUE, new_docs)
             /\ documents' = docs
             /\ IF BatchIsFull(docs, batch_size)
                THEN /\ batches' = Append(batches, docs)
                     /\ pc' = "yielded"
                     /\ j' = j
                ELSE /\ batches' = batches
                     /\ pc' = "phase2"
                     /\ j' = j + 1
    /\ metadata' = ResolveMetadata(metadata, store[file_ids[j]].display_name).metadata
    /\ open_handles' = open_handles \cup {file_ids[j]}
    /\ UNCHANGED <<envVars, scanVars, i, file_ids, file_names, store, n_saves>>

\* line 200 left out: the accumulator keeps the batch just yielded
Resume_KeepsDocuments ==
    /\ pc = "yielded"
    /\ j' = j + 1
    /\ pc' = "phase2"
    /\ UNCHANGED <<envVars, scanVars, uploadVars, documents, batches, calls,
                   open_handles>>

\* line 200: the consumer asks for the next batch: the accumulator is reset
\* and the loop goes on
Resume ==
    /\ pc = "yielded"
    /\ documents' = <<>>
    /\ j' = j + 1
    /\ pc' = "phase2"
    /\ UNCHANGED <<envVars, scanVars, uploadVars, batches, calls, open_handles>>

\* the consumer stops iterating: the suspended generator is closed
ConsumerStops ==
    /\ pc \in {"yielded", "yielded_last"}
    /\ pc' = "closed"
    /\ UNCHANGED <<envVars, scanVars, uploadVars, emitVars, calls, open_handles>>

\* lines 202-203: the loop is over with documents left: the last batch
FinalYield ==
    /\ pc = "phase2"
    /\ j > NumPairs
    /\ documents # <<>>
    /\ batches' = Append(batches, documents)
    /\ pc' = "yielded_last"
    /\ UNCHANGED <<envVars, scanVars, uploadVars, j, documents, calls, open_handles>>

\* line 202 with nothing left, or the consumer resuming after the last
\* batch: the generator returns
Finish ==
    /\ \/ pc = "phase2" /\ j > NumPairs /\ documents = <<>>
       \/ pc = "yielded_last"
    /\ pc' = "done"
    /\ UNCHANGED <<envVars, scanVars, uploadVars, emitVars, calls, open_handles>>

Next ==
    \/ ScanRootRejected
    \/ ScanRootAccepted
    \/ WalkDir
    \/ WalkDenied
    \/ WalkFaulty
    \/ ScanReturn
    \/ UploadFile
    \/ NoFilesReturn
    \/ BeginPhase2
    \/ SkipMissingRecord
    \/ ExtractRaises
    \/ ProcessFile
    \/ Resume
    \/ ConsumerStops
    \/ FinalYield
    \/ Finish

Spec == Init /\ [][Next]_vars

(***************************************************************************)
(* What the claims speak of, read off the state and the call log.          *)
(***************************************************************************)
RECURSIVE Flatten(_)
Flatten(lists) ==
    IF Len(lists) = 0 THEN <<>> ELSE Head(lists) \o Flatten(Tail(lists))

CeilDiv(a, b) == (a + b - 1) \div b

CallsOf(op) == SelectSeq(calls, LAMBDA c : c.op = op)

\* the extractions that returned, in call order
Extractions == SelectSeq(calls, LAMBDA c : c.op = "extract" /\ c.ok)

\* the document list extraction returned for the k-th pair, empty when the
\* pair was skipped or not reached
DocsOfPair(k) ==
    LET hits == SelectSeq(Extractions, LAMBDA c : c.file_id = file_ids[k])
    IN  IF Len(hits) = 0 THEN <<>> ELSE hits[1].docs

\* the documents of the pairs 1..k, in pair order
RECURSIVE DocsUpTo(_)
DocsUpTo(k) == IF k = 0 THEN <<>> ELSE DocsUpTo(k - 1) \o DocsOfPair(k)

ExpectedDocs == DocsUpTo(NumPairs)

TotalDocs == Len(ExpectedDocs)

BatchSizes == [k \in 1..Len(batches) |-> Len(batches[k])]

ExtractionSizes == [k \in 1..Len(Extractions) |-> Len(Extractions[k].docs)]

(***************************************************************************)
(* C1: for batchSize N >= 1 and D documents extracted in a run consumed to *)
(* its end, the claim says there are exactly ceil(D/N) batches and every   *)
(* batch but the last holds exactly N documents.                           *)
(***************************************************************************)
C1_ExactBatchSizes ==
    (pc = "done" /\ batch_size >= 1) =>
        /\ Len(batches) = CeilDiv(TotalDocs, batch_size)
        /\ \A k \in 1..(Len(batches) - 1) : Len(batches[k]) = batch_size

\* C1 as amended: at most ceil(D/N) batches, none when D = 0 and at least one
\* otherwise, every batch but the last holds at least N documents; the count
\* is exactly ceil(D/N) and the sizes exactly N when no extraction returns
\* more than one document; files of 2, 2 and 1 documents with N = 2 give
\* batches of sizes 2, 2, 1.
C1_BatchSizesAtLeast ==
    (pc = "done" /\ batch_size >= 1) =>
        /\ Len(batches) <= CeilDiv(TotalDocs, batch_size)
        /\ (TotalDocs = 0) = (Len(batches) = 0)
        /\ \A k \in 1..(Len(batches) - 1) : Len(batches[k]) >= batch_size
        /\ (\A k \in 1..Len(Extractions) : Len(Extractions[k].docs) <= 1) =>
               /\ Len(batches) = CeilDiv(TotalDocs, batch_size)
               /\ \A k \in 1..(Len(batches) - 1) : Len(batches[k]) = batch_size
        /\ (batch_size = 2 /\ ExtractionSizes = <<2, 2, 1>>) =>
               BatchSizes = <<2, 2, 1>>

C1_Witness ==
    /\ pc = "done"
    /\ batch_size = 2
    /\ ExtractionSizes = <<2, 2, 1>>
    /\ BatchSizes = <<2, 2, 1>>

(***************************************************************************)
(* C2: in a run consumed to its end with no extraction failure, the        *)
(* batches concatenated in yield order are the document lists extraction   *)
(* returned, concatenated in pair order over the pairs that had a record.  *)
(***************************************************************************)
C2_ConcatenationPreserved ==
    (pc = "done") => Flatten(batches) = ExpectedDocs

C2_Witness ==
    /\ pc = "done"
    /\ Len(batches) >= 2
    /\ TotalDocs >= 3
    /\ \E k \in 1..Len(calls) : calls[k].op = "readRecord" /\ ~ calls[k].ok

(***************************************************************************)
(* C3: every batch yielded is a non-empty list, whatever batch_size the    *)
(* connector was constructed with and whatever the extractions return.     *)
(***************************************************************************)
C3_BatchesNonEmpty ==
    \A k \in 1..Len(batches) : Len(batches[k]) > 0

(***************************************************************************)
(* The upload phase, read off the call log.                                *)
(***************************************************************************)
\* the scan returned and the upload loop has gone through every entry
UploadOver == pc \notin {"start", "walk", "scan_raised"} /\ i > Len(files)

Opens == CallsOf("open")

Saves == CallsOf("save")

OkSaves == SelectSeq(Saves, LAMBDA c : c.ok)

HasCall(op, file_id) ==
    \E k \in 1..Len(calls) : calls[k].op = op /\ calls[k].file_id = file_id

(***************************************************************************)
(* C4: a failed upload (open or save raising) never ends the upload loop:  *)
(* every scanned entry is opened in scan order, every entry that opened is *)
(* offered to the store, the ids of the saves that succeeded are exactly   *)
(* the returned fileIds, and in a run consumed to its end each of them has *)
(* its record read and, the record found, its bytes read and extracted.    *)
(***************************************************************************)
C4_UploadFailureIsolated ==
    /\ UploadOver =>
         /\ [k \in 1..Len(Opens) |-> Opens[k].path]
              = [k \in 1..Len(files) |-> files[k].full_path]
         /\ [k \in 1..Len(Saves) |-> Saves[k].path]
              = LET opened == SelectSeq(Opens, LAMBDA c : c.ok)
                IN  [k \in 1..Len(opened) |-> opened[k].path]
         /\ [k \in 1..Len(OkSaves) |-> OkSaves[k].file_id] = file_ids
    /\ pc = "done" =>
         \A k \in 1..Len(file_ids) :
            /\ HasCall("readRecord", file_ids[k])
            /\ (\E c \in 1..Len(calls) :
                   /\ calls[c].op = "readRecord"
                   /\ calls[c].file_id = file_ids[k]
                   /\ calls[c].ok)
               => /\ HasCall("readBytes", file_ids[k])
                  /\ HasCall("extract", file_ids[k])

\* the first of three entries fails at the store, the two after it are
\* uploaded and extracted
C4_Witness ==
    /\ pc = "done"
    /\ Len(files) = 3
    /\ Len(Saves) = 3
    /\ ~ Saves[1].ok
    /\ Len(file_ids) = 2
    /\ Len(Extractions) = 2

(***************************************************************************)
(* C5: fileIds and displayNames are parallel: same length, the i-th id is  *)
(* the id the store returned for the save made under the i-th name, and a  *)
(* failed upload adds to neither list.                                     *)
(***************************************************************************)
C5_IdsAndNamesParallel ==
    /\ Len(file_ids) = Len(file_names)
    /\ Len(file_ids) = Len(OkSaves)
    /\ \A k \in 1..Len(OkSaves) :
          /\ k <= Len(file_ids) => file_ids[k] = OkSaves[k].file_id
          /\ k <= Len(file_names) => file_names[k] = OkSaves[k].name

\* the second of three uploads fails at the store
C5_Witness ==
    /\ UploadOver
    /\ Len(files) = 3
    /\ Len(Saves) = 3
    /\ ~ Saves[2].ok
    /\ Len(file_ids) = 2
    /\ Len(file_names) = 2

(***************************************************************************)
(* C6: a pair whose record the store does not return is skipped: no bytes  *)
(* are read and nothing is extracted for it, no document of it reaches a   *)
(* batch, no error is raised, and the pairs after it are still processed.  *)
(***************************************************************************)
C6_MissingRecordSkipped ==
    /\ \A p \in 1..Len(calls) :
          (calls[p].op = "readRecord" /\ ~ calls[p].ok) =>
             /\ ~ HasCall("readBytes", calls[p].file_id)
             /\ ~ HasCall("extract", calls[p].file_id)
             /\ \A d \in 1..Len(Flatten(batches) \o documents) :
                   (Flatten(batches) \o documents)[d].file_id # calls[p].file_id
             /\ p = Len(calls) => pc \in {"phase2", "yielded_last", "done", "closed"}
    /\ pc = "done" =>
          \A k \in 1..Len(file_ids) : HasCall("readRecord", file_ids[k])

C6_Witness ==
    /\ pc = "done"
    /\ Len(file_ids) >= 2
    /\ \E p \in 1..Len(calls) :
          /\ calls[p].op = "readRecord"
          /\ calls[p].file_id = file_ids[1]
          /\ ~ calls[p].ok
    /\ \E p \in 1..Len(calls) :
          /\ calls[p].op = "extract"
          /\ calls[p].file_id = file_ids[2]
          /\ Len(calls[p].docs) > 0

(***************************************************************************)
(* C7: an extraction failure ends the run: the failing extract is the last *)
(* call ever made, the run is left by the exception, and what was yielded  *)
(* before stays delivered: the batches and the accumulator hold exactly    *)
(* the documents of the earlier pairs.                                     *)
(***************************************************************************)
C7_ExtractionFailureEndsRun ==
    \A p \in 1..Len(calls) :
       (calls[p].op = "extract" /\ ~ calls[p].ok) =>
          /\ p = Len(calls)
          /\ pc = "extract_raised"
          /\ j <= Len(file_ids) /\ calls[p].file_id = file_ids[j]
          /\ Flatten(batches) \o documents = DocsUpTo(j - 1)

C7_Witness ==
    /\ pc = "extract_raised"
    /\ Len(batches) >= 1
    /\ j < Len(file_ids)

(***************************************************************************)
(* C8: when the upload returns no fileIds (nothing scanned, or every       *)
(* upload failed) the generator returns at once: no batch, no error, no    *)
(* readRecord, readBytes or extract call.                                  *)
(***************************************************************************)
C8_NothingUploadedNoBatches ==
    (UploadOver /\ file_ids = <<>>) =>
        /\ pc \in {"upload", "done"}
        /\ batches = <<>>
        /\ \A k \in 1..Len(calls) :
              calls[k].op \notin {"readRecord", "readBytes", "extract"}

C8_Witness ==
    /\ pc = "done"
    /\ Len(files) >= 2
    /\ file_ids = <<>>

(***************************************************************************)
(* C9: a root path that is missing or is no directory gives an empty scan: *)
(* nothing is walked, nothing raised, nothing uploaded, no batch yielded.  *)
(***************************************************************************)
C9_BadRootIsEmptyScan ==
    (rootKind # "dir") =>
        /\ pc \in {"start", "upload", "done"}
        /\ files = <<>>
        /\ visited = {}
        /\ walkStack = <<>>
        /\ calls = <<>>
        /\ store = <<>>
        /\ batches = <<>>

C9_Witness ==
    /\ rootKind = "file"
    /\ pc = "done"

(***************************************************************************)
(* C10: the scan returns one entry for each file of the tree whose name    *)
(* and whose directories up to the root do not start with "." and whose    *)
(* extension the registry accepts, and nothing else; relative_path is the  *)
(* path from the scanned folder and full_path is the folder joined to it.  *)
(***************************************************************************)
HiddenNode(n) == Candidates[n].name[1] = "."

RECURSIVE VisibleFromRoot(_)
VisibleFromRoot(n) ==
    /\ ~ HiddenNode(n)
    /\ Candidates[n].parent = 0 \/ VisibleFromRoot(Candidates[n].parent)

RECURSIVE PathFromRoot(_)
PathFromRoot(n) ==
    IF Candidates[n].parent = 0 THEN Candidates[n].name
    ELSE PathFromRoot(Candidates[n].parent) \o <<SEP>> \o Candidates[n].name

EligibleNodes(t) ==
    { n \in t : /\ Candidates[n].kind = "file"
                /\ VisibleFromRoot(n)
                /\ IsAcceptedFileExt(GetFileExt(Candidates[n].name)) }

FilterSegments ==
    { <<>>, DOT, DOTDOT, <<".", "s">>, <<"a">>, <<"r", ".", "p", "d", "f">> }

RECURSIVE SegmentLists(_)
SegmentLists(n) ==
    IF n = 0 THEN { <<>> }
    ELSE SegmentLists(n - 1)
         \cup { Append(l, x) : l \in { m \in SegmentLists(n - 1) : Len(m) = n - 1 },
                               x \in FilterSegments }

InitFilter ==
    /\ folder_path = <<"/", "d">>
    /\ batch_size = MaxBatchSize
    /\ rootKind = "missing"
    /\ tree = {}
    /\ filter_path \in { JoinParts(l) : l \in SegmentLists(MaxSegments) }
    /\ filter_result = FALSE
    /\ Idle

\* lines 20-27: one call of _should_process_file
ApplyFilter ==
    /\ pc = "start"
    /\ filter_result' = ShouldProcessFile(filter_path)
    /\ pc' = "filtered"
    /\ UNCHANGED <<folder_path, batch_size, rootKind, tree, scanVars, uploadVars,
                   emitVars, calls, open_handles, filter_path>>

NextFilter == ApplyFilter

SpecFilter == InitFilter /\ [][NextFilter]_vars

\* the segments of the path as written
RawSegments == Split(filter_path)

\* the segments of the path once normalised
NormalSegments == Split(Normpath(filter_path))

HasHidden(segs) == \E k \in 1..Len(segs) : StartsWithDot(segs[k])

\* the path is written in normal form: no empty, "." or ".." segment
WrittenNormal ==
    \A k \in 1..Len(RawSegments) : RawSegments[k] \notin {<<>>, DOT, DOTDOT}

(***************************************************************************)
(* C11: the claim says the filter returns false for every path with a      *)
(* segment starting with "." and true for every path with no such segment  *)
(* (and an accepted extension).                                            *)
(***************************************************************************)
C11_FilterOnRawSegments ==
    (pc = "filtered") =>
        /\ HasHidden(RawSegments) => ~ filter_result
        /\ (~ HasHidden(RawSegments)
            /\ IsAcceptedFileExt(GetFileExt(Basename(filter_path))))
           => filter_result

\* C11 as amended: the segments are those of the normalised path: the filter
\* returns false exactly when a segment of os.path.normpath(path) starts
\* with "."; for a path written in normal form these are its own segments.
C11_FilterOnNormalSegments ==
    (pc = "filtered") =>
        /\ filter_result = ~ HasHidden(NormalSegments)
        /\ WrittenNormal => (filter_result = ~ HasHidden(RawSegments))

\* .s/a/r.pdf is rejected
C11_Witness ==
    /\ pc = "filtered"
    /\ filter_path = <<".", "s", "/", "a", "/", "r", ".", "p", "d", "f">>
    /\ WrittenNormal
    /\ ~ filter_result

(***************************************************************************)
(* C12: a traversal error met while walking the tree aborts the run: the   *)
(* scanner does not return, nothing is saved to the store (not even files  *)
(* found before the error) and no batch is yielded.                        *)
(***************************************************************************)
\* the walk has met a directory it could not list
TraversalErrorMet == \E d \in visited : DirKind(d) \in {"denied", "faulty"}

C12_TraversalErrorAbortsRun ==
    TraversalErrorMet =>
        /\ pc \in {"walk", "scan_raised"}
        /\ n_saves = 0
        /\ store = <<>>
        /\ batches = <<>>

(***************************************************************************)
(* C13: batches are produced lazily: a batch reaches the consumer with the *)
(* generator suspended, and at that moment (and for as long as the         *)
(* consumer holds it, or after it stopped iterating) no record or bytes    *)
(* have been read and nothing extracted for any later pair; stopping       *)
(* raises no error.                                                        *)
(***************************************************************************)
Phase2Ops == {"readRecord", "readBytes", "extract"}

\* no phase-2 call has been made for any pair after the k-th
PairsAfterUntouched(k) ==
    \A q \in (k + 1)..Len(file_ids) :
       \A c \in 1..Len(calls) :
          calls[c].op \in Phase2Ops => calls[c].file_id # file_ids[q]

C13_LazyState ==
    (pc \in {"yielded", "yielded_last", "closed"}) => PairsAfterUntouched(j)

C13_LazyStep ==
    (Len(batches') > Len(batches)) =>
        /\ pc' \in {"yielded", "yielded_last"}
        /\ Len(batches') = Len(batches) + 1

C13_LazyBatches == [] C13_LazyState /\ [][C13_LazyStep]_vars

\* the consumer stopped after the first batch with pairs left
C13_Witness ==
    /\ pc = "closed"
    /\ Len(batches) = 1
    /\ j < Len(file_ids)
    /\ PairsAfterUntouched(j)

(***************************************************************************)
(* C14: the run has two phases: the scan is over before the first save,    *)
(* and every save of the run (the upload loop has gone through all scanned *)
(* files) comes before the first readRecord, readBytes or extract.         *)
(***************************************************************************)
C14_TwoPhases ==
    /\ (\E c \in 1..Len(calls) : calls[c].op \in {"open", "save"}) =>
          /\ pc \notin {"start", "walk", "scan_raised"}
          /\ walkStack = <<>>
    /\ (\E c \in 1..Len(calls) : calls[c].op \in Phase2Ops) =>
          /\ i > Len(files)
          /\ Len(Opens) = Len(files)
    /\ \A p \in 1..Len(calls) : \A q \in 1..Len(calls) :
          (calls[p].op \in Phase2Ops /\ calls[q].op \in {"open", "save"}) => q < p

\* three saves, then the records of the two that succeeded are read
C14_Witness ==
    /\ pc = "done"
    /\ Len(Saves) = 3
    /\ Len(CallsOf("readRecord")) = 2
    /\ Len(Extractions) >= 1

(***************************************************************************)
(* C15: hidden directories are pruned from the walk: no directory below    *)
(* the root whose name, or the name of a directory above it, starts with   *)
(* "." is ever listed or queued, so the scan raises only for an error met  *)
(* in a directory outside every hidden one.                                *)
(***************************************************************************)
C15_HiddenDirsNeverVisited ==
    /\ \A d \in visited : d = 0 \/ VisibleFromRoot(d)
    /\ \A k \in 1..Len(walkStack) : walkStack[k] = 0 \/ VisibleFromRoot(walkStack[k])
    /\ pc = "scan_raised" =>
          \E d \in visited : d # 0 /\ VisibleFromRoot(d) /\ DirKind(d) = "faulty"

\* the scan returns although a/.g raises when listed and .s holds r.pdf
C15_Witness ==
    /\ pc = "upload"
    /\ {3, 5, 6, 12} \subseteq tree
    /\ 6 \in visited
    /\ 3 \notin visited
    /\ 12 \notin visited
    /\ files = <<>>

(***************************************************************************)
(* C16: every handle the run opens is released on every exit path: the     *)
(* file opened for upload is closed before the next call whether the save  *)
(* returned or raised, at most one handle or byte stream is open at any    *)
(* time, and none is open once the run has ended (returned, raised, or     *)
(* the consumer stopped).                                                  *)
(***************************************************************************)
RunEnded == pc \in {"done", "closed", "extract_raised", "scan_raised"}

\* in the log every file opened is closed right after its save
UploadHandlesClosed ==
    \A c \in 1..Len(calls) :
       (calls[c].op = "open" /\ calls[c].ok) =>
          /\ c + 2 <= Len(calls)
          /\ calls[c + 1].op = "save"
          /\ calls[c + 2].op = "close"
          /\ calls[c + 2].path = calls[c].path

C16_HandlesReleased ==
    /\ UploadHandlesClosed
    /\ Cardinality(open_handles) <= 1
    /\ RunEnded => open_handles = {}

(***************************************************************************)
(* C17: the metadata handed to every extract call carries connector_type:  *)
(* it is FOLDER when the dict resolved for the record's display name had   *)
(* none, an entry already there is left as it is, and the base is an empty *)
(* dict when the display name has no entry in the upload's metadata.       *)
(***************************************************************************)
\* a dict without its connector_type entry
WithoutTag(m) == [k \in (DOMAIN m) \ {"connector_type"} |-> m[k]]

\* a display name no upload of the model produces, and a dict tagged before
UnknownName == <<"z">>

TaggedBefore == [connector_type |-> "file", relative_path |-> <<"z">>]

C17_ConnectorTypeCarried ==
    /\ \A c \in 1..Len(calls) :
          (calls[c].op = "extract") =>
             /\ "connector_type" \in DOMAIN calls[c].meta
             /\ calls[c].meta.connector_type = FOLDER
             /\ calls[c].name \in DOMAIN metadata
             /\ WithoutTag(calls[c].meta) = WithoutTag(metadata[calls[c].name])
             /\ {"relative_path", "full_path"} \subseteq DOMAIN calls[c].meta
    /\ ResolveMetadata(metadata, UnknownName).file_metadata
         = [connector_type |-> FOLDER]
    /\ ResolveMetadata((UnknownName :> TaggedBefore) @@ metadata,
                       UnknownName).file_metadata = TaggedBefore

\* r.pdf and a/r.pdf share one dict: the first extract tags it, the second
\* finds the tag there
C17_Witness ==
    /\ pc = "done"
    /\ Len(CallsOf("extract")) = 2
    /\ CallsOf("extract")[1].name = CallsOf("extract")[2].name
    /\ CallsOf("extract")[2].meta.connector_type = FOLDER
    /\ "connector_type" \in DOMAIN metadata[CallsOf("extract")[1].name]

(***************************************************************************)
(* C18: once the upload loop is over, metadata[d] holds the relative and   *)
(* the full path of the last scanned entry of basename d whose save        *)
(* succeeded; an entry whose upload failed leaves the mapping as it was;   *)
(* the keys of the mapping are the display names returned.                 *)
(***************************************************************************)
\* the saves of display name d that succeeded, in scan order
OkSavesOf(d) == SelectSeq(OkSaves, LAMBDA c : c.name = d)

\* the scanned entry of a full path (full paths are distinct in a scan)
EntryAt(path) ==
    CHOOSE e \in {files[k] : k \in 1..Len(files)} : e.full_path = path

C18_MetadataLastWriteWins ==
    UploadOver =>
        /\ DOMAIN metadata = {file_names[k] : k \in 1..Len(file_names)}
        /\ DOMAIN metadata = {OkSaves[k].name : k \in 1..Len(OkSaves)}
        /\ \A d \in DOMAIN metadata :
              LET last == OkSavesOf(d)[Len(OkSavesOf(d))]
              IN  /\ metadata[d].full_path = last.path
                  /\ metadata[d].relative_path = EntryAt(last.path).relative_path

\* r.pdf and a/r.pdf are both saved and the entry under r.pdf is a/r.pdf's,
\* in a run where another upload failed at the store
C18_Witness ==
    /\ UploadOver
    /\ pc = "upload"
    /\ \E d \in DOMAIN metadata :
          /\ Len(OkSavesOf(d)) = 2
          /\ metadata[d].full_path = OkSavesOf(d)[2].path
          /\ metadata[d].full_path # OkSavesOf(d)[1].path
    /\ \E k \in 1..Len(Saves) : ~ Saves[k].ok

(***************************************************************************)
(* C19: the documents of one file are never split over two batches, and    *)
(* every batch but possibly the last holds at least batch_size documents:  *)
(* a batch ends right after all documents of the file just extracted.      *)
(***************************************************************************)
DocSet(docs) == {docs[k] : k \in 1..Len(docs)}

\* docs ends with tail
EndsWith(docs, tail) ==
    /\ Len(tail) <= Len(docs)
    /\ SubSeq(docs, Len(docs) - Len(tail) + 1, Len(docs)) = tail

C19_FilesNotSplit ==
    /\ \A b \in 1..Len(batches) : \A e \in 1..Len(Extractions) :
          (DocSet(Extractions[e].docs) \cap DocSet(batches[b]) # {}) =>
              DocSet(Extractions[e].docs) \subseteq DocSet(batches[b])
    /\ \A b \in 1..(Len(batches) - 1) : Len(batches[b]) >= batch_size
    /\ (pc = "yielded") =>
          /\ Len(batches[Len(batches)]) >= batch_size
          /\ EndsWith(batches[Len(batches)], Extractions[Len(Extractions)].docs)

\* files of 1, 2 and 1 documents with batch_size 2: the second file's
\* documents stay together in a batch of 3
C19_Witness ==
    /\ pc = "done"
    /\ batch_size = 2
    /\ ExtractionSizes = <<1, 2, 1>>
    /\ BatchSizes = <<3, 1>>

(***************************************************************************)
(* C20: the relative and the full path in the metadata handed to an        *)
(* extract call are those of the file whose id and bytes the same call     *)
(* gets, also when two eligible files share a basename.                    *)
(***************************************************************************)
C20_MetadataOfSameFile ==
    \A c \in 1..Len(calls) :
        (calls[c].op = "extract") =>
            /\ calls[c].meta.full_path = calls[c].path
            /\ calls[c].meta.relative_path = EntryAt(calls[c].path).relative_path

====
